---- MODULE Spec2Model ----
(* Model of saba_core/src/url.rs: the Url object, Url::new, Url::parse and  *)
(* the extract_* helpers.  A Rust String is modelled as a sequence of       *)
(* one-character strings, so that prefix trimming, substring search and     *)
(* splitting are computed character by character as the library does.       *)
EXTENDS Integers, Sequences, FiniteSets, TLC

VARIABLES raw, self, result, first_result, first_self, fresh_result, calls

vars == <<raw, self, result, first_result, first_self, fresh_result, calls>>

----------------------------------------------------------------------------
(* Bounds and the input alphabet *)

MaxChunks == 5
MaxCalls == 2

HTTP == <<"h", "t", "t", "p", ":", "/", "/">>
Port80 == <<"8", "0">>
EmptyStr == <<>>
ErrMsg == "Only HTTP scheme is supported."

Chunks == {HTTP, <<"h", "t", "t", "p">>, <<"s">>, <<":">>, <<"/">>, <<"?">>, Port80}

RECURSIVE RawsUpTo(_)
RawsUpTo(n) ==
    IF n = 0 THEN {EmptyStr}
    ELSE LET prev == RawsUpTo(n - 1)
         IN  prev \cup {r \o c : r \in prev, c \in Chunks}

----------------------------------------------------------------------------
(* Library string functions used by url.rs *)

Tail_from(s, i) == SubSeq(s, i, Len(s))

starts_with(s, p) == Len(s) >= Len(p) /\ SubSeq(s, 1, Len(p)) = p

contains(s, p) == \E i \in 0..(Len(s) - Len(p)) : SubSeq(s, i + 1, i + Len(p)) = p

\* index (1-based) of the first occurrence of character c, 0 for None
find(s, c) ==
    IF \E i \in 1..Len(s) : s[i] = c
    THEN CHOOSE i \in 1..Len(s) : s[i] = c /\ \A j \in 1..(i - 1) : s[j] # c
    ELSE 0

\* index (1-based) of the first occurrence of pattern p, 0 for None
find_str(s, p) ==
    IF contains(s, p)
    THEN CHOOSE i \in 1..(Len(s) - Len(p) + 1) :
            /\ SubSeq(s, i, i + Len(p) - 1) = p
            /\ \A j \in 1..(i - 1) : SubSeq(s, j, j + Len(p) - 1) # p
    ELSE 0

\* mutation: removes the first occurrence wherever it is (replacen(p, "", 1))
remove_first_occurrence(s, p) ==
    LET i == find_str(s, p)
    IN  IF i = 0 THEN s ELSE SubSeq(s, 1, i - 1) \o Tail_from(s, i + Len(p))

\* str::trim_start_matches: removes every repeated leading match of p
RECURSIVE trim_start_matches(_, _)
trim_start_matches(s, p) ==
    IF Len(p) > 0 /\ starts_with(s, p)
    THEN trim_start_matches(Tail_from(s, Len(p) + 1), p)
    ELSE s

\* str::splitn(2, c).collect(): one piece, or two pieces around the first c
splitn2(s, c) ==
    LET i == find(s, c)
    IN  IF i = 0 THEN <<s>> ELSE <<SubSeq(s, 1, i - 1), Tail_from(s, i + 1)>>

----------------------------------------------------------------------------
(* Url *)

\* mutation: the constructor normalises the string by dropping the scheme
Url_new_stripped(url) ==
    [url |-> trim_start_matches(url, HTTP), host |-> EmptyStr, port |-> EmptyStr,
     path |-> EmptyStr, searchpart |-> EmptyStr]

Url_new(url) ==
    [url |-> url, host |-> EmptyStr, port |-> EmptyStr,
     path |-> EmptyStr, searchpart |-> EmptyStr]

host(u) == u.host
port(u) == u.port
path(u) == u.path
searchpart(u) == u.searchpart

\* mutation: a prefix test instead of a containment test
is_http_prefix(u) == starts_with(u.url, HTTP)

is_http(u) == contains(u.url, HTTP)

url_parts(u) == splitn2(trim_start_matches(u.url, HTTP), "/")

\* mutation: the whole authority is taken as the host
extract_host_authority(u) == url_parts(u)[1]

extract_host(u) ==
    LET parts == url_parts(u)
        index == find(parts[1], ":")
    IN  IF index # 0 THEN SubSeq(parts[1], 1, index - 1) ELSE parts[1]

\* mutation: an empty port after ':' falls back to the default
extract_port_default_empty(u) ==
    LET parts == url_parts(u)
        index == find(parts[1], ":")
    IN  IF index # 0 /\ index < Len(parts[1]) THEN Tail_from(parts[1], index + 1) ELSE Port80

extract_port(u) ==
    LET parts == url_parts(u)
        index == find(parts[1], ":")
    IN  IF index # 0 THEN Tail_from(parts[1], index + 1) ELSE Port80

\* mutation: the path is not cut at '?'
extract_path_uncut(u) ==
    LET parts == url_parts(u)
    IN  IF Len(parts) < 2 THEN EmptyStr ELSE parts[2]

extract_path(u) ==
    LET parts == url_parts(u)
    IN  IF Len(parts) < 2 THEN EmptyStr
        ELSE splitn2(parts[2], "?")[1]

\* mutation: the search part keeps its leading '?'
extract_searchpart_with_mark(u) ==
    LET parts == url_parts(u)
    IN  IF Len(parts) < 2 THEN EmptyStr
        ELSE LET ps == splitn2(parts[2], "?")
             IN  IF Len(ps) < 2 THEN EmptyStr ELSE <<"?">> \o ps[2]

extract_searchpart(u) ==
    LET parts == url_parts(u)
    IN  IF Len(parts) < 2 THEN EmptyStr
        ELSE LET ps == splitn2(parts[2], "?")
             IN  IF Len(ps) < 2 THEN EmptyStr ELSE ps[2]

None == [tag |-> "None"]
Err(msg) == [tag |-> "Err", err |-> msg]
Ok(u) == [tag |-> "Ok", val |-> u]

\* the object as the four assignments of parse leave it
populated(u) ==
    LET u1 == [u EXCEPT !.host = extract_host(u)]
        u2 == [u1 EXCEPT !.port = extract_port(u1)]
        u3 == [u2 EXCEPT !.path = extract_path(u2)]
    IN  [u3 EXCEPT !.searchpart = extract_searchpart(u3)]

\* mutation: the fields are written before the scheme is checked
parse_write_first(u) ==
    LET u4 == populated(u)
    IN  IF ~is_http(u) THEN [obj |-> u4, ret |-> Err(ErrMsg)]
        ELSE [obj |-> u4, ret |-> Ok(u4)]

\* mutation: the stripped string is stored back into the url field
parse_store_stripped(u) ==
    IF ~is_http(u) THEN [obj |-> u, ret |-> Err(ErrMsg)]
    ELSE LET u4 == [populated(u) EXCEPT !.url = trim_start_matches(u.url, HTTP)]
         IN  [obj |-> u4, ret |-> Ok(u4)]

\* parse(&mut self): obj is self after the call, ret the returned value
parse(u) ==
    IF ~is_http(u) THEN [obj |-> u, ret |-> Err(ErrMsg)]
    ELSE LET u4 == populated(u)
         IN  [obj |-> u4, ret |-> Ok(u4)]

----------------------------------------------------------------------------
(* State machine: one Url object built from raw and parsed repeatedly, and  *)
(* a fresh object built from the same raw and parsed once.                  *)

Init ==
    /\ raw \in RawsUpTo(MaxChunks)
    /\ self = Url_new(raw)
    /\ result = None
    /\ first_result = None
    /\ first_self = None
    /\ fresh_result = None
    /\ calls = 0

\* self.parse() on the object under observation
Parse ==
    /\ calls < MaxCalls
    /\ LET r == parse(self)
       IN  /\ self' = r.obj
           /\ result' = r.ret
           /\ first_result' = IF calls = 0 THEN r.ret ELSE first_result
           /\ first_self' = IF calls = 0 THEN r.obj ELSE first_self
    /\ calls' = calls + 1
    /\ UNCHANGED <<raw, fresh_result>>

\* Url::new(raw).parse() on a temporary, as the tests do
ParseFresh ==
    /\ fresh_result = None
    /\ fresh_result' = parse(Url_new(raw)).ret
    /\ UNCHANGED <<raw, self, result, first_result, first_self, calls>>

Next == Parse \/ ParseFresh

Spec == Init /\ [][Next]_vars

TypeOK ==
    /\ calls \in 0..MaxCalls
    /\ result.tag \in {"None", "Ok", "Err"}
    /\ fresh_result.tag \in {"None", "Ok", "Err"}
----------------------------------------------------------------------------
(* Vocabulary of the properties, stated on positions of the string and      *)
(* independently of the helpers above.                                      *)

HasChar(s, c) == \E i \in 1..Len(s) : s[i] = c

\* "http://" occupies positions i+1 .. i+7 of s
HasHttpAt(s, i) == i + 7 <= Len(s) /\ \A j \in 1..7 : s[i + j] = HTTP[j]

HasHttp(s) == \E i \in 0..Len(s) : HasHttpAt(s, i)

\* length of the longest prefix of s free of the characters in cs
PrefixLen(s, cs) ==
    CHOOSE k \in 0..Len(s) :
        /\ \A i \in 1..k : s[i] \notin cs
        /\ (k = Len(s) \/ s[k + 1] \in cs)

Before(s, cs) == SubSeq(s, 1, PrefixLen(s, cs))
HasAfter(s, cs) == PrefixLen(s, cs) < Len(s)
After(s, cs) == SubSeq(s, PrefixLen(s, cs) + 2, Len(s))

\* the decomposition of an already scheme-stripped string s
AuthorityOf(s) == Before(s, {"/"})
HostOf(s) == Before(AuthorityOf(s), {":"})
PortOf(s) == IF HasAfter(AuthorityOf(s), {":"}) THEN After(AuthorityOf(s), {":"}) ELSE Port80
PathOf(s) == IF HasAfter(s, {"/"}) THEN Before(After(s, {"/"}), {"?"}) ELSE EmptyStr
SearchOf(s) ==
    IF HasAfter(s, {"/"}) /\ HasAfter(After(s, {"/"}), {"?"})
    THEN After(After(s, {"/"}), {"?"})
    ELSE EmptyStr

\* the string the strip step of the program leaves
Stripped == trim_start_matches(raw, HTTP)

Returned == {r \in {result, fresh_result} : r.tag # "None"}
Succeeded == {r.val : r \in {r \in Returned : r.tag = "Ok"}}

Unparsed(url) ==
    [url |-> url, host |-> EmptyStr, port |-> EmptyStr,
     path |-> EmptyStr, searchpart |-> EmptyStr]

----------------------------------------------------------------------------
(* C1: parse returns the error "Only HTTP scheme is supported." exactly     *)
(* when raw has no occurrence of "http://"; every raw with an occurrence,   *)
(* a leading one in particular, succeeds; there is no other outcome.        *)
Thm_C1_ErrorIffNoHttp ==
    \A r \in Returned :
        /\ r.tag \in {"Ok", "Err"}
        /\ (r.tag = "Err") <=> ~HasHttp(raw)
        /\ r.tag = "Err" => r = Err(ErrMsg)
        /\ HasHttpAt(raw, 0) => r.tag = "Ok"

Wit_C1_EmptyHostEmptyPort ==
    /\ raw = HTTP \o <<":">>
    /\ result.tag = "Ok"
    /\ fresh_result.tag = "Ok"

(* C2: for a raw string starting with two or more "http://", exactly the    *)
(* first one is removed and the rest, "http://...", is what is split into   *)
(* host, port, path and search.                                             *)
Claim_C2_SinglePrefixRemoved ==
    \A v \in Succeeded :
        starts_with(raw, HTTP \o HTTP) =>
            LET rest == Tail_from(raw, Len(HTTP) + 1)
            IN  /\ v.host = HostOf(rest)
                /\ v.port = PortOf(rest)
                /\ v.path = PathOf(rest)
                /\ v.searchpart = SearchOf(rest)

(* C3: with A the part of the scheme-stripped string before its first '/',  *)
(* host is A and port "80" when A has no ':'; otherwise host is A before    *)
(* its first ':' and port is everything of A after that ':'.                *)
Thm_C3_HostPortSplit ==
    \A v \in Succeeded :
        LET A == AuthorityOf(Stripped)
        IN  IF HasChar(A, ":")
            THEN /\ A = v.host \o <<":">> \o v.port
                 /\ ~HasChar(v.host, ":")
            ELSE /\ v.host = A
                 /\ v.port = Port80

Wit_C3_PortWithFurtherColon ==
    /\ result.tag = "Ok"
    /\ HasChar(result.val.port, ":")
    /\ result.val.host # EmptyStr

(* C4: with B the part of the scheme-stripped string after its first '/':   *)
(* without a '/', path and search are empty; otherwise path is B before     *)
(* its first '?' and search everything of B after it, kept verbatim.        *)
Thm_C4_PathSearchSplit ==
    \A v \in Succeeded :
        IF ~HasChar(Stripped, "/")
        THEN v.path = EmptyStr /\ v.searchpart = EmptyStr
        ELSE LET B == After(Stripped, {"/"})
             IN  /\ ~HasChar(v.path, "?")
                 /\ IF HasChar(B, "?")
                    THEN B = v.path \o <<"?">> \o v.searchpart
                    ELSE v.path = B /\ v.searchpart = EmptyStr

Wit_C4_SearchKeepsLaterDelimiters ==
    /\ result.tag = "Ok"
    /\ HasChar(result.val.searchpart, "?")
    /\ HasChar(result.val.searchpart, "/")

(* C5: a second and any later parse on the same object returns what the     *)
(* first call returned and leaves the object as the first call set it, and  *)
(* a fresh object built from the same raw parses to the same result.        *)
Thm_C5_ParseIdempotent ==
    /\ calls >= 1 => result = first_result /\ self = first_self
    /\ calls >= 1 /\ fresh_result # None => fresh_result = result

Wit_C5_ParsedTwiceAndFresh ==
    /\ calls >= 2
    /\ result.tag = "Ok"
    /\ fresh_result.tag = "Ok"
    /\ starts_with(raw, HTTP)
    /\ self.path # EmptyStr

\* the string rebuilt from the fields of a parsed value
Rebuilt(v) ==
    v.host \o (IF v.port # Port80 THEN <<":">> \o v.port ELSE EmptyStr)
           \o <<"/">> \o v.path
           \o (IF v.searchpart # EmptyStr THEN <<"?">> \o v.searchpart ELSE EmptyStr)

(* C6: for every successful parse, parsing "http://" followed by            *)
(* host [":" port unless "80"] "/" path ["?" search unless empty] succeeds  *)
(* and yields the same host, port, path and search.                         *)
Thm_C6_RoundTrip ==
    \A v \in Succeeded :
        LET again == parse(Url_new(HTTP \o Rebuilt(v))).ret
        IN  /\ again.tag = "Ok"
            /\ again.val.host = v.host
            /\ again.val.port = v.port
            /\ again.val.path = v.path
            /\ again.val.searchpart = v.searchpart

Wit_C6_RebuiltDiffersFromInput ==
    /\ result.tag = "Ok"
    /\ HasChar(Stripped, ":")
    /\ result.val.port = Port80
    /\ result.val.path # EmptyStr
    /\ Rebuilt(result.val) # Stripped

(* C7: after a successful parse the scheme-stripped string is               *)
(* host [":" port] ["/" path ["?" search]], the fields in this order and    *)
(* separated only by the delimiters; only a defaulted port "80" is not      *)
(* taken from raw; host has no ':' or '/', port no '/', path no '?'.         *)
Thm_C7_DisjointOrderedRanges ==
    \A v \in Succeeded :
        LET hasSlash == HasChar(Stripped, "/")
            hasColon == HasChar(Before(Stripped, {"/"}), ":")
            hasMark == hasSlash /\ HasChar(After(Stripped, {"/"}), "?")
        IN  /\ Stripped =
                 v.host \o (IF hasColon THEN <<":">> \o v.port ELSE EmptyStr)
                        \o (IF hasSlash
                            THEN <<"/">> \o v.path
                                 \o (IF hasMark THEN <<"?">> \o v.searchpart ELSE EmptyStr)
                            ELSE EmptyStr)
            /\ ~hasColon => v.port = Port80
            /\ ~hasSlash => v.path = EmptyStr
            /\ ~hasMark => v.searchpart = EmptyStr
            /\ \E k \in 0..Len(raw) : Tail_from(raw, k + 1) = Stripped
            /\ ~HasChar(v.host, ":") /\ ~HasChar(v.host, "/")
            /\ ~HasChar(v.port, "/")
            /\ ~HasChar(v.path, "?")

Wit_C7_PortAndPathFromRaw ==
    /\ result.tag = "Ok"
    /\ result.val.port = <<"s">>
    /\ result.val.path = <<"s">>

(* C8: raw is retained verbatim: new stores it unchanged with the derived   *)
(* fields empty, parse never modifies it, and every returned value and the  *)
(* object itself carry the input string character for character.            *)
Thm_C8_RawRetained ==
    /\ self.url = raw
    /\ calls = 0 => self = Unparsed(raw)
    /\ \A v \in Succeeded : v.url = raw

Wit_C8_SchemeKeptInRaw ==
    /\ calls >= 1
    /\ result.tag = "Ok"
    /\ fresh_result.tag = "Ok"
    /\ HasHttpAt(self.url, 0)
    /\ self.host = <<"s">>

(* C9: when raw contains "http://" but does not start with it, parse        *)
(* succeeds, nothing is stripped and the whole raw string is split: host    *)
(* is raw up to its first ':' or '/'.                                       *)
Thm_C9_NonLeadingMarkerNotStripped ==
    \A r \in Returned :
        HasHttp(raw) /\ ~HasHttpAt(raw, 0) =>
            /\ r.tag = "Ok"
            /\ r.val.host = Before(raw, {":", "/"})
            /\ r.val.port = PortOf(raw)
            /\ r.val.path = PathOf(raw)
            /\ r.val.searchpart = SearchOf(raw)

Wit_C9_SchemeLettersInHost ==
    /\ result.tag = "Ok"
    /\ raw = <<"s">> \o HTTP \o <<"s">>
    /\ result.val.host = <<"s", "h", "t", "t", "p">>

(* C10: a failed parse leaves the object as constructed, raw kept and the   *)
(* four derived fields empty; derived fields are non-empty only after a     *)
(* successful parse.                                                        *)
Thm_C10_FailureLeavesObjectUnchanged ==
    /\ result.tag = "Err" => self = Unparsed(raw)
    /\ (\E f \in {host(self), port(self), path(self), searchpart(self)} : f # EmptyStr)
          => result.tag = "Ok"

Wit_C10_FailedTwice ==
    /\ calls >= 2
    /\ result.tag = "Err"
    /\ HasChar(raw, ":")
    /\ HasChar(raw, "/")
    /\ HasChar(raw, "?")
====
